---- MODULE Spec2Model ----
(***************************************************************************)
(* Model of src/cne/singularity_index.py: the filter bank                  *)
(* (SingularityIndexFilters) and the multiscale singularity index          *)
(* (applyMMSI).                                                            *)
(*                                                                         *)
(* Numbers.  minScale is kept in tenths of a pixel (15 is the default      *)
(* 1.5).  The integer results of int(...) are computed exactly; on the     *)
(* ranges used here the exact values agree with the double-precision ones, *)
(* including np.sqrt(2)**s, which for even s > 0 is slightly larger than   *)
(* 2^(s/2).  Values of the form (a + b*sqrt(2))/10 are kept as the pair    *)
(* [a, b]; additions of responses are exact (no rounding).                 *)
(*                                                                         *)
(* Maps.  Every statement of the cross-scale aggregation is element-wise,  *)
(* so each R x C map is followed at one pixel: psi_scale, angles, psi_max, *)
(* psi_sum, orient, widthMap and psi are the values of the maps there.     *)
(***************************************************************************)
EXTENDS Integers, Sequences, FiniteSets

VARIABLES
    pc,         \* "new", "ready", "ctor_failed", "loop", "done", "failed"
    err,        \* the exception that ended the constructor or the call
    minScale,   \* filters.minScale, in tenths
    nrScales,   \* filters.nrScales
    filters,    \* the kernels' half sizes and shapes, once created
    shape,      \* I1.shape of the caller's array
    R, C,       \* the rows and columns unpacked from the shape
    imgZero,    \* TRUE when every sample of the caller's image is zero
    I1,         \* the working image: the resizes applied to the caller's image
    s,          \* the loop index of applyMMSI
    results,    \* per finished scale pass: its psi_scale, angles and input image
    psi_max, psi_sum, orient, widthMap, psi,   \* the aggregate
    aliased,    \* TRUE while psi_max and psi_sum name the same array
    out         \* what applyMMSI returned

vars == <<pc, err, minScale, nrScales, filters, shape, R, C, imgZero, I1, s,
          results, psi_max, psi_sum, orient, widthMap, psi, aliased, out>>

---------------------------------------------------------------------------
(* Bounds *)

MaxScales == 4          \* nrScales ranges over -1..MaxScales
MaxDim == 5             \* R and C range over 1..MaxDim
MaxNdim == 3            \* len(I1.shape) ranges over 1..MaxNdim
MaxResp == 2            \* a scale's response at the pixel is at most MaxResp
MaxMinScale == 30       \* the constructor's minScale ranges over -MaxMinScale..MaxMinScale

NoValue == "none"
NotReturned == [returned |-> FALSE]

NrScalesVals == (0 - 1)..MaxScales
\* minScale values of the constructor in the pipeline specification:
\* a negative one, zero, and the default 1.5
CallerMinScales == {0 - 5, 0, 15}
AngleVals == {0, 1}     \* two distinguishable orientation values

---------------------------------------------------------------------------
(* Arithmetic helpers *)

\* Python's int(n/d) for d > 0: truncation toward zero
Trunc(n, d) == IF n >= 0 THEN n \div d ELSE 0 - ((0 - n) \div d)

\* round(n/d) for d > 0, halves away from zero
Round(n, d) == IF n >= 0 THEN (2 * n + d) \div (2 * d)
               ELSE 0 - ((2 * (0 - n) + d) \div (2 * d))

RECURSIVE Pow2(_)
Pow2(n) == IF n <= 0 THEN 1 ELSE 2 * Pow2(n - 1)

\* len(range(a, b))
RangeLen(a, b) == IF b > a THEN b - a ELSE 0

---------------------------------------------------------------------------
(* SingularityIndexFilters *)

\* sigmad*3, sigma2*3 and sigma1*3 as fractions num/den of a pixel
Sigma3Num(kind, ms) == CASE kind = "debias" -> 5 * ms * 3
                         [] kind = "second" -> ms * 3
                         [] kind = "first"  -> ms * 17754 * 3
Sigma3Den(kind) == IF kind = "first" THEN 100000 ELSE 10

\* ksized = int(sigmad*3)
KsizeD(ms) == Trunc(Sigma3Num("debias", ms), Sigma3Den("debias"))
\* ksize2 = int(sigma2*3) + 1
Ksize2NoPlusOne(ms) == Trunc(Sigma3Num("second", ms), Sigma3Den("second"))
Ksize2(ms) == Trunc(Sigma3Num("second", ms), Sigma3Den("second")) + 1
\* ksize1 = int(sigma1*3) + 1
Ksize1(ms) == Trunc(Sigma3Num("first", ms), Sigma3Den("first")) + 1

\* cv2.getGaussianKernel(n, sigma): an n x 1 column; a size n <= 0 is an error
GaussianKernelFails(n) == n <= 0
GaussianKernelShape(n) == <<n, 1>>
Transposed(sh) == <<sh[2], sh[1]>>
\* numpy broadcasting of two 2-D shapes (equal, or one of them 1, per axis)
Broadcast(a, b) == <<IF a[1] = 1 THEN b[1] ELSE a[1],
                     IF a[2] = 1 THEN b[2] ELSE a[2]>>

\* _createFilters: the exception it ends with, or NoValue
CreateFiltersError(ms) ==
    CASE GaussianKernelFails(2 * KsizeD(ms) + 1) -> "cv2.error"
      [] GaussianKernelFails(2 * Ksize2(ms) + 1) -> "cv2.error"
      [] ms = 0                                  -> "ZeroDivisionError"
      [] GaussianKernelFails(2 * Ksize1(ms) + 1) -> "cv2.error"
      [] OTHER                                   -> NoValue

\* _createFilters: the kernels' shapes
CreateFilters(ms) ==
    LET ksized == KsizeD(ms)
        ksize2 == Ksize2(ms)
        ksize1 == Ksize1(ms)
        grid   == <<RangeLen(0 - ksize2, ksize2 + 1), RangeLen(0 - ksize2, ksize2 + 1)>>
        G01d   == GaussianKernelShape(2 * ksize2 + 1)
        G0     == Broadcast(G01d, Transposed(G01d))
        G2     == Broadcast(grid, G0)
        x_1    == <<1, 2 * ksize1 + 1>>
        G0_a   == GaussianKernelShape(2 * ksize1 + 1)
    IN  [ksized |-> ksized, ksize2 |-> ksize2, ksize1 |-> ksize1,
         Gdebias |-> GaussianKernelShape(2 * ksized + 1),
         G01d |-> G01d, G20 |-> G2, G260 |-> G2, G2120 |-> G2,
         G0_a |-> G0_a, G1 |-> Broadcast(x_1, Transposed(G0_a)),
         isCreated |-> TRUE]

NoAggregate == /\ psi_max = NoValue /\ psi_sum = NoValue /\ orient = NoValue
               /\ widthMap = NoValue /\ psi = NoValue /\ aliased = FALSE

InitWith(minScales) ==
    /\ pc = "new"
    /\ err = NoValue
    /\ minScale \in minScales
    /\ nrScales \in NrScalesVals
    /\ filters = NoValue
    /\ shape = <<>> /\ R = 0 /\ C = 0 /\ imgZero = FALSE
    /\ I1 = <<>>
    /\ s = 0
    /\ results = <<>>
    /\ NoAggregate
    /\ out = NotReturned

\* SingularityIndexFilters(minScale, nrScales)
Construct ==
    /\ pc = "new"
    /\ LET e == CreateFiltersError(minScale)
       IN  IF e = NoValue
           THEN /\ filters' = CreateFilters(minScale)
                /\ pc' = "ready"
                /\ err' = NoValue
           ELSE /\ filters' = NoValue
                /\ pc' = "ctor_failed"
                /\ err' = e
    /\ UNCHANGED <<minScale, nrScales, shape, R, C, imgZero, I1, s, results,
                   psi_max, psi_sum, orient, widthMap, psi, aliased, out>>

InitFilters == InitWith((0 - MaxMinScale)..MaxMinScale)
NextFilters == Construct
SpecFilters == InitFilters /\ [][NextFilters]_vars

---------------------------------------------------------------------------
(* applyMMSI: the steps of one scale pass *)

\* len(I1.shape) > 2
TooManyDimsLax(sh) == Len(sh) > 3
TooManyDims(sh) == Len(sh) > 2

\* int(n / (np.sqrt(2)**sc)) for n >= 1.  np.sqrt(2)**sc is irrational for odd sc
\* and, in double precision, slightly above 2^(sc/2) for even sc > 0.
TargetDim(n, sc) ==
    LET fits(k) == IF sc > 0 /\ sc % 2 = 0
                   THEN k * k * Pow2(sc) < n * n
                   ELSE k * k * Pow2(sc) <= n * n
    IN  CHOOSE k \in 0..n : fits(k) /\ ~fits(k + 1)

\* the dsize of the downscaling cv2.resize at scale sc: (width, height)
DownSize(sc) == <<TargetDim(C, sc), TargetDim(R, sc)>>

\* cv2.resize(src, dsize) with fx = fy = 0 raises cv2.error for an empty dsize
ResizeFails(dsize) == dsize[1] <= 0 \/ dsize[2] <= 0

\* The value np.abs(J0)*J2 / (1 + np.abs(J1)**2) can take at the pixel.  The
\* filters are linear, so on an all-zero image J0 = J1 = J2 = 0 and the value is 0.
RawIndexVals == IF imgZero THEN {0} ELSE (0 - MaxResp)..1

\* psi_scale[psi_scale>0] = 0 ; psi_scale = -psi_scale
Polarity(raw) == IF raw > 0 THEN 0 ELSE 0 - raw

\* cv2.resize(psi_scale, (C, R), INTER_CUBIC) at the pixel: an interpolation of
\* the scale's map, which can undershoot a non-zero map below zero and maps an
\* all-zero map to zero.
CubicResizeVals(v) == IF imgZero THEN {v} ELSE {v - 1, v}

\* np.arctan2(Nr, Dr) / 2 at the pixel (arctan2(0, 0) = 0 on an all-zero image),
\* also after the nearest-neighbour resize, which copies values
AngleValsAt == IF imgZero THEN {0} ELSE AngleVals

---------------------------------------------------------------------------
(* applyMMSI: the cross-scale aggregation *)

\* filters.minScale * (np.sqrt(2)**sc) as the pair [a, b] of (a + b*sqrt(2))/10
Bandwidth(ms, sc) ==
    IF sc % 2 = 0 THEN [a |-> ms * Pow2(sc \div 2), b |-> 0]
                  ELSE [a |-> 0, b |-> ms * Pow2((sc - 1) \div 2)]

PairScale(p, k) == [a |-> p.a * k, b |-> p.b * k]
PairAdd(p, q) == [a |-> p.a + q.a, b |-> p.b + q.b]

\* idx = psi_scale > psi_max
ExceedsOrTies(x, y) == x >= y
Exceeds(x, y) == x > y

\* the branch s == 0: psi_max and psi_sum are bound to the same array
AggFirst(ms, sc, ps, an) ==
    [psi_max  |-> ps,
     psi_sum  |-> ps,
     orient   |-> an,
     widthMap |-> PairScale(Bandwidth(ms, sc), ps),
     psi      |-> ps * ps,
     aliased  |-> TRUE]

\* the branch s > 0.  psi_max[idx] = psi_scale[idx] writes in place, so while
\* psi_sum is the same array the write shows in psi_sum too;
\* psi_sum = psi_sum + psi_scale then binds psi_sum to a new array.
AggNext(a, ms, sc, ps, an) ==
    LET idx     == Exceeds(ps, a.psi_max)
        newMax  == IF idx THEN ps ELSE a.psi_max
        sumRead == IF a.aliased THEN newMax ELSE a.psi_sum
    IN  [psi_max  |-> newMax,
         psi_sum  |-> sumRead + ps,
         orient   |-> IF idx THEN an ELSE a.orient,
         widthMap |-> PairAdd(a.widthMap, PairScale(Bandwidth(ms, sc), ps)),
         psi      |-> a.psi + ps * ps,
         aliased  |-> FALSE]

Aggregate == [psi_max |-> psi_max, psi_sum |-> psi_sum, orient |-> orient,
              widthMap |-> widthMap, psi |-> psi, aliased |-> aliased]

\* psi_sum > 0, the mask of the final division
PositiveMaskLax(x) == x >= 0
PositiveMask(x) == x > 0

---------------------------------------------------------------------------
(* applyMMSI: the actions *)

Init == InitWith(CallerMinScales)

\* applyMMSI(I1, filters) up to the loop: the shape check and R, C = I1.shape
Call ==
    /\ pc = "ready"
    /\ \E n \in 1..MaxNdim : \E sh \in [1..n -> 1..MaxDim] : \E z \in BOOLEAN :
         /\ shape' = sh
         /\ imgZero' = z
         /\ IF TooManyDims(sh)
            THEN /\ pc' = "failed"
                 /\ err' = "ValueError: single channel"
                 /\ UNCHANGED <<R, C>>
            ELSE IF Len(sh) # 2
            THEN /\ pc' = "failed"
                 /\ err' = "ValueError: unpack"
                 /\ UNCHANGED <<R, C>>
            ELSE /\ pc' = "loop"
                 /\ err' = NoValue
                 /\ R' = sh[1]
                 /\ C' = sh[2]
    /\ UNCHANGED <<minScale, nrScales, filters, I1, s, results,
                   psi_max, psi_sum, orient, widthMap, psi, aliased, out>>

\* one iteration of the loop over the scales
ScalePass ==
    /\ pc = "loop"
    /\ s < nrScales
    /\ \/ /\ s > 0
          /\ ResizeFails(DownSize(s))
          /\ pc' = "failed"
          /\ err' = "cv2.error"
          /\ UNCHANGED <<I1, s, results, psi_max, psi_sum, orient, widthMap,
                         psi, aliased>>
       \/ /\ s > 0 => ~ResizeFails(DownSize(s))
          /\ I1' = IF s > 0 THEN Append(I1, DownSize(s)) ELSE I1
          /\ \E raw \in RawIndexVals : \E an \in AngleValsAt :
             \E ps \in (IF s > 0 THEN CubicResizeVals(Polarity(raw))
                                 ELSE {Polarity(raw)}) :
               LET agg == IF s = 0 THEN AggFirst(minScale, s, ps, an)
                                   ELSE AggNext(Aggregate, minScale, s, ps, an)
               IN  /\ psi_max' = agg.psi_max
                   /\ psi_sum' = agg.psi_sum
                   /\ orient' = agg.orient
                   /\ widthMap' = agg.widthMap
                   /\ psi' = agg.psi
                   /\ aliased' = agg.aliased
                   /\ results' = Append(results,
                          [s |-> s, psi_scale |-> ps, angles |-> an, image |-> I1'])
          /\ s' = s + 1
          /\ UNCHANGED <<pc, err>>
    /\ UNCHANGED <<minScale, nrScales, filters, shape, R, C, imgZero, out>>

\* after the loop: the masked division, the square root and the return.
\* With no pass run (nrScales <= 0) widthMap and psi_sum are unbound names.
Finish ==
    /\ pc = "loop"
    /\ s >= nrScales
    /\ IF s = 0
       THEN /\ pc' = "failed"
            /\ err' = "NameError"
            /\ out' = out
       ELSE /\ pc' = "done"
            /\ err' = err
            /\ out' = [returned |-> TRUE,
                       psi      |-> [sqrtOf |-> psi],
                       widthMap |-> [num |-> widthMap,
                                     den |-> IF PositiveMask(psi_sum) THEN psi_sum ELSE 1],
                       divided  |-> PositiveMask(psi_sum),
                       orient   |-> orient]
    /\ UNCHANGED <<minScale, nrScales, filters, shape, R, C, imgZero, I1, s,
                   results, psi_max, psi_sum, orient, widthMap, psi, aliased>>

Next == Construct \/ Call \/ ScalePass \/ Finish
Spec == Init /\ [][Next]_vars

---------------------------------------------------------------------------
(* Helpers of the properties *)

\* the scale passes finished so far
Passes == 1..Len(results)

\* the loop has run at least one pass, so the aggregate is bound
Aggregated == pc \in {"loop", "done", "failed"} /\ Len(results) >= 1

\* the loop has processed scales 0..nrScales-1
LoopFinished == pc \in {"loop", "done"} /\ nrScales >= 1 /\ s = nrScales

RECURSIVE SumResp(_)
SumResp(n) == IF n = 0 THEN 0 ELSE SumResp(n - 1) + results[n].psi_scale

MaxOfResp == CHOOSE m \in {results[i].psi_scale : i \in Passes} :
                 \A i \in Passes : results[i].psi_scale <= m

LowestArgMax == CHOOSE i \in Passes :
                    /\ results[i].psi_scale = MaxOfResp
                    /\ \A j \in Passes : results[j].psi_scale = MaxOfResp => i <= j

\* x + y*sqrt(2) >= 0, for integers x and y
NonNeg(x, y) == CASE x >= 0 /\ y >= 0 -> TRUE
                  [] x < 0 /\ y < 0   -> FALSE
                  [] x >= 0 /\ y < 0  -> x * x >= 2 * y * y
                  [] OTHER            -> 2 * y * y >= x * x

\* p <= q for pairs (a + b*sqrt(2))/10
PairLeq(p, q) == NonNeg(q.a - p.a, q.b - p.b)

\* the aggregation folded over the per-scale results in the order given by
\* order[1], order[2], ...: the first one initializes, the others are merged
RECURSIVE Fold(_, _)
Fold(order, n) ==
    LET r == results[order[n]]
    IN  IF n = 1 THEN AggFirst(minScale, r.s, r.psi_scale, r.angles)
        ELSE AggNext(Fold(order, n - 1), minScale, r.s, r.psi_scale, r.angles)

Permutations(n) == {f \in [1..n -> 1..n] : \A i, j \in 1..n : f[i] = f[j] => i = j}

Outcome(a) == <<a.psi_max, a.psi_sum, a.psi, a.widthMap, a.orient>>

---------------------------------------------------------------------------
(* Properties *)

\* C1: once the loop has processed scales 0..nrScales-1, psi_sum is the plain
\* sum of the per-scale responses, each added exactly once, whether or not a
\* scale updated the running maximum.
C1_SumIsPlainSum == LoopFinished => psi_sum = SumResp(Len(results))

\* C2: a filter bank with non-positive minScale or nrScales is rejected at
\* construction; it never becomes usable and applyMMSI is never entered with
\* nrScales <= 0.
C2_NonPositiveRejected ==
    (minScale <= 0 \/ nrScales <= 0) => pc \in {"new", "ctor_failed"}

\* C3: for a 2-D image with R, C >= 1 and a valid configuration no scale pass
\* fails, whatever the downsample target dimensions are.
C3_NoPassFails ==
    (Len(shape) = 2 /\ minScale > 0 /\ nrScales >= 1) => pc # "failed"

C5_ScaleInputFromOriginal ==
    \A i \in Passes :
        results[i].image = IF results[i].s = 0 THEN <<>>
                           ELSE <<DownSize(results[i].s)>>

\* C6: folding the per-scale results into the aggregate in any permutation of
\* the scales gives the same psi_max, psi_sum, psi, widthMap and orient as the
\* sequential order 0, 1, ..., nrScales-1.
C6_OrderIndependent ==
    LoopFinished =>
        \A order \in Permutations(Len(results)) :
            Outcome(Fold(order, Len(results))) = Outcome(Aggregate)

\* C7: an input with more than two dimensions fails with the single-channel
\* ValueError before the first scale pass: no resize, no filtering, no output.
C7_TooManyDimsFailsEagerly ==
    (pc \in {"loop", "done", "failed"} /\ Len(shape) > 2) =>
        /\ pc = "failed"
        /\ err = "ValueError: single channel"
        /\ results = <<>>
        /\ I1 = <<>>
        /\ s = 0
        /\ out = NotReturned

C7_Witness == pc = "failed" /\ Len(shape) = 3 /\ nrScales >= 1 /\ minScale > 0

\* C8: after scales 0..k have been aggregated, psi_max is the maximum of their
\* responses and orient is the orientation of the lowest-index scale that
\* attains it (a later scale wins only with a strictly greater response).
C8_WinnerTakeAll ==
    Aggregated =>
        /\ psi_max = MaxOfResp
        /\ orient = results[LowestArgMax].angles

C8_Witness ==
    /\ pc = "done" /\ Len(results) = 3
    /\ results[1].psi_scale = results[3].psi_scale
    /\ results[2].psi_scale < results[1].psi_scale
    /\ results[1].angles # results[3].angles
    /\ orient = results[1].angles

\* C9 (as stated): every kernel has half-size round(3*sigma) and size 2k+1.
C9_RoundedHalfSizes ==
    (pc = "ready" /\ minScale > 0) =>
        LET kd == Round(15 * minScale, 10)
            k2 == Round(3 * minScale, 10)
            k1 == Round(53262 * minScale, 100000)
        IN  /\ filters.Gdebias = <<2 * kd + 1, 1>>
            /\ filters.G01d = <<2 * k2 + 1, 1>>
            /\ filters.G20 = <<2 * k2 + 1, 2 * k2 + 1>>
            /\ filters.G260 = <<2 * k2 + 1, 2 * k2 + 1>>
            /\ filters.G2120 = <<2 * k2 + 1, 2 * k2 + 1>>
            /\ filters.G0_a = <<2 * k1 + 1, 1>>
            /\ filters.G1 = <<1, 2 * k1 + 1>>

\* C9 (amended): the debias kernel has half-size int(3*sigma); gaussian0, the
\* second-derivative kernels and the first-derivative basis have half-size
\* int(3*sigma) + 1; each has size 2k+1 along each non-singleton dimension.
C9_TruncatedHalfSizes ==
    (pc = "ready" /\ minScale > 0) =>
        LET kd == (15 * minScale) \div 10
            k2 == ((3 * minScale) \div 10) + 1
            k1 == ((53262 * minScale) \div 100000) + 1
        IN  /\ filters.Gdebias = <<2 * kd + 1, 1>>
            /\ filters.G01d = <<2 * k2 + 1, 1>>
            /\ filters.G20 = <<2 * k2 + 1, 2 * k2 + 1>>
            /\ filters.G260 = <<2 * k2 + 1, 2 * k2 + 1>>
            /\ filters.G2120 = <<2 * k2 + 1, 2 * k2 + 1>>
            /\ filters.G0_a = <<2 * k1 + 1, 1>>
            /\ filters.G1 = <<1, 2 * k1 + 1>>

C9_Witness ==
    /\ pc = "ready" /\ minScale = 15
    /\ filters.Gdebias = <<45, 1>>
    /\ filters.G20 = <<11, 11>>
    /\ filters.G1 = <<1, 17>>

\* C10: when all per-scale responses are non-negative and the final psi_sum is
\* positive, minScale <= widthEstimate <= minScale * sqrt(2)^(nrScales-1).
C10_WidthInBandwidthRange ==
    (/\ pc = "done"
     /\ \A i \in Passes : results[i].psi_scale >= 0
     /\ psi_sum > 0) =>
        /\ out.divided
        /\ PairLeq(PairScale(Bandwidth(minScale, 0), out.widthMap.den),
                   out.widthMap.num)
        /\ PairLeq(out.widthMap.num,
                   PairScale(Bandwidth(minScale, nrScales - 1), out.widthMap.den))

====
